---- MODULE Spec2Model ----
(***************************************************************************)
(* A model of src/core/ai_assistant.py: the AIAssistant service            *)
(* (configuration, client construction, naming suggestions, content        *)
(* extraction) and the AIDialog transcript (questions, placeholders,       *)
(* background workers, completion callbacks).                              *)
(*                                                                         *)
(* Python strings are sequences of one-character strings.  Python's None   *)
(* is the one-element tuple None, which no string equals.                  *)
(***************************************************************************)
EXTENDS Integers, Sequences, FiniteSets, TLC

VARIABLES
    api_key,        \* AIAssistant.api_key
    client,         \* AIAssistant.client
    is_configured,  \* AIAssistant.is_configured
    config_file,    \* the contents of .arangr_ai_config.json
    op,             \* the last operation of the service and its inputs
    ret,            \* what the last operation returned (val), whether it raised (exc)
                    \* and, for a suggestion request, the content it sent
    has_ops,        \* whether the dialog's assistant offers ask_question/analyze_file
    current_file,   \* AIDialog.current_file
    dlg_content,    \* AIDialog.file_content
    question_var,   \* AIDialog.question_var
    chat,           \* AIDialog.chat_text: its lines, each the entries inserted on it
    reqs,           \* the dispatched requests, in order of dispatch
    afterq          \* the callbacks dialog.after(0, ...) queued on the event loop

svars == <<api_key, client, is_configured, config_file, op, ret>>
dvars == <<has_ops, current_file, dlg_content, question_var, chat, reqs, afterq>>
vars == <<svars, dvars>>

\* ------------------------------------------------------------ strings

None == <<"None">>

Truthy(s) == s # None /\ s # <<>>

S_sk == <<"s", "k", "-">>
S_File == <<"F", "i", "l", "e", ":", " ">>
S_Filename == <<"F", "i", "l", "e", "n", "a", "m", "e", ":", " ">>
S_FileType == <<"\n", "F", "i", "l", "e", " ", "t", "y", "p", "e", ":", " ">>
S_Marker == <<".", ".", ".">>
S_renamed == <<"_", "r", "e", "n", "a", "m", "e", "d">>
S_organized == <<"_", "o", "r", "g", "a", "n", "i", "z", "e", "d">>
S_updated == <<"_", "u", "p", "d", "a", "t", "e", "d">>
S_v == <<"_", "v">>

\* str.startswith
StartsWith(s, p) == Len(s) >= Len(p) /\ SubSeq(s, 1, Len(p)) = p

\* str.rfind of a one-character string, as a 0-based index, -1 when absent
RFind(s, c) ==
    LET hits == {i \in 1..Len(s) : s[i] = c}
    IN  IF hits = {} THEN -1
        ELSE (CHOOSE i \in hits : \A j \in hits : j <= i) - 1

\* os.path.basename (posixpath): what follows the last "/"
Basename(p) == SubSeq(p, RFind(p, "/") + 2, Len(p))

\* os.path.splitext (genericpath._splitext): the extension starts at the last
\* dot of the last component, unless only dots precede it there
SplitExt(p) ==
    LET sepIndex == RFind(p, "/")
        dotIndex == RFind(p, ".")
        named == \E i \in (sepIndex + 1)..(dotIndex - 1) : p[i + 1] # "."
    IN  IF dotIndex > sepIndex /\ named
        THEN <<SubSeq(p, 1, dotIndex), SubSeq(p, dotIndex + 1, Len(p))>>
        ELSE <<p, <<>> >>

\* os.path.splitext(os.path.basename(file_path))[0]
BaseName(file_path) == SplitExt(Basename(file_path))[1]

LowerChar(c) ==
    CASE c = "T" -> "t" [] c = "X" -> "x" [] c = "P" -> "p" [] c = "D" -> "d"
      [] c = "F" -> "f" [] c = "O" -> "o" [] c = "C" -> "c"
      [] OTHER -> c

\* str.lower
Lower(s) == [i \in 1..Len(s) |-> LowerChar(s[i])]

IsSpace(c) == c \in {" ", "\n", "\t"}

\* str.strip
Strip(s) ==
    LET solid == {i \in 1..Len(s) : ~IsSpace(s[i])}
    IN  IF solid = {} THEN <<>>
        ELSE SubSeq(s, CHOOSE i \in solid : \A j \in solid : i <= j,
                       CHOOSE i \in solid : \A j \in solid : j <= i)

\* str.split('\n')
RECURSIVE SplitLines(_)
SplitLines(s) ==
    LET nl == {i \in 1..Len(s) : s[i] = "\n"}
    IN  IF nl = {} THEN <<s>>
        ELSE LET i == CHOOSE k \in nl : \A j \in nl : k <= j
             IN  <<SubSeq(s, 1, i - 1)>> \o SplitLines(SubSeq(s, i + 1, Len(s)))

\* str(n) for a small non-negative integer
Digits == <<"0", "1", "2", "3", "4", "5", "6", "7", "8", "9">>
RECURSIVE Str(_)
Str(n) == IF n < 10 THEN <<Digits[n + 1]>> ELSE Str(n \div 10) \o <<Digits[(n % 10) + 1]>>

RECURSIVE Concat(_)
Concat(ss) == IF ss = <<>> THEN <<>> ELSE Head(ss) \o Concat(Tail(ss))

\* ------------------------------------------------------------ the service

Budget == 3000          \* the content size limit
NumSuggestions == 3     \* how many names a request returns
MaxPdfPages == 3        \* pages read from a PDF
MaxParagraphs == 10     \* paragraphs read from a word document

TextExts == { <<".", "t", "x", "t">>, <<".", "m", "d">>, <<".", "p", "y">>,
              <<".", "j", "s">>, <<".", "h", "t", "m", "l">>, <<".", "c", "s", "s">>,
              <<".", "j", "s", "o", "n">>, <<".", "x", "m", "l">> }
PdfExt == <<".", "p", "d", "f">>
WordExts == { <<".", "d", "o", "c">>, <<".", "d", "o", "c", "x">> }

\* openai.OpenAI(api_key=...): the client remembers the key it was built with
OpenAI(key) == <<"OpenAI">> \o key

\* AIAssistant._initialize_client.  outcome is what importing and constructing
\* does: "ok", "ImportError" or "Error".  Only success assigns anything.
InitializeClientDrop(key, cl, conf, outcome) ==
    IF outcome = "ok"
    THEN [client |-> OpenAI(key), is_configured |-> TRUE, ok |-> TRUE]
    ELSE [client |-> None, is_configured |-> FALSE, ok |-> FALSE]

InitializeClient(key, cl, conf, outcome) ==
    IF outcome = "ok"
    THEN [client |-> OpenAI(key), is_configured |-> TRUE, ok |-> TRUE]
    ELSE [client |-> cl, is_configured |-> conf, ok |-> FALSE]

\* AIAssistant._save_config: the file is rewritten with the key, unless opening
\* it for writing fails, which is printed and leaves the file as it was
SaveConfig(key, file, fs_ok) == IF fs_ok THEN key ELSE file

NoFile == <<"NoFile">>
Corrupt == <<"Corrupt">>

\* AIAssistant._load_config: the key of an existing, well-formed file
LoadedKey(file) == IF file \in {NoFile, Corrupt} THEN None ELSE file

\* AIAssistant.is_ready
IsReadyOf(conf, cl) == conf /\ cl # None
is_ready == IsReadyOf(is_configured, client)

\* AIAssistant.setup_api_key: the state after the dialog returned `entered`
SetupEager(entered, outcome, fs_ok) ==
    LET init == InitializeClient(entered, client, is_configured, outcome)
    IN  IF Truthy(entered)
        THEN [api_key |-> entered,
              config_file |-> SaveConfig(entered, config_file, fs_ok),
              client |-> IF StartsWith(entered, S_sk) THEN init.client ELSE client,
              is_configured |-> IF StartsWith(entered, S_sk) THEN init.is_configured
                                ELSE is_configured,
              ret |-> StartsWith(entered, S_sk) /\ init.ok]
        ELSE [api_key |-> api_key, config_file |-> config_file, client |-> client,
              is_configured |-> is_configured, ret |-> FALSE]

SetupReset(entered, outcome, fs_ok) ==
    LET init == InitializeClient(entered, None, FALSE, outcome)
    IN  IF Truthy(entered) /\ StartsWith(entered, S_sk)
        THEN [api_key |-> entered,
              config_file |-> SaveConfig(entered, config_file, fs_ok),
              client |-> init.client,
              is_configured |-> init.is_configured,
              ret |-> init.ok]
        ELSE [api_key |-> api_key, config_file |-> config_file, client |-> client,
              is_configured |-> is_configured, ret |-> FALSE]

SetupResult(entered, outcome, fs_ok) ==
    LET init == InitializeClient(entered, client, is_configured, outcome)
    IN  IF Truthy(entered) /\ StartsWith(entered, S_sk)
        THEN [api_key |-> entered,
              config_file |-> SaveConfig(entered, config_file, fs_ok),
              client |-> init.client,
              is_configured |-> init.is_configured,
              ret |-> init.ok]
        ELSE [api_key |-> api_key, config_file |-> config_file, client |-> client,
              is_configured |-> is_configured, ret |-> FALSE]

\* the branches of _extract_file_content by extension.  fs describes the file:
\* readable (open succeeds), reader ("ok", "absent": the import fails, "error":
\* the reader raises), text (of a text file), parts (a PDF's page texts, None
\* where extract_text() gives None, or a word document's paragraphs).
ExtractByKind(file_path, fs, file_ext, pages, paras) ==
    IF file_ext \in TextExts
    THEN IF fs.readable THEN [exc |-> "none", val |-> fs.text]
         ELSE [exc |-> "OSError", val |-> None]
    ELSE IF (file_ext = PdfExt \/ file_ext \in WordExts) /\ fs.reader # "absent"
    THEN CASE fs.reader = "error" \/ ~fs.readable -> [exc |-> "Error", val |-> None]
           [] file_ext = PdfExt /\ (\E i \in 1..Len(pages) : pages[i] = None) ->
                [exc |-> "TypeError", val |-> None]
           [] file_ext = PdfExt -> [exc |-> "none", val |-> Concat(pages)]
           [] OTHER ->
                [exc |-> "none",
                 val |-> Concat([i \in 1..Len(paras) |-> paras[i] \o <<"\n">>])]
    ELSE [exc |-> "none",
          val |-> S_Filename \o Basename(file_path) \o S_FileType \o file_ext]

\* s[:n]
Prefix(s, n) == SubSeq(s, 1, IF Len(s) < n THEN Len(s) ELSE n)

\* AIAssistant._extract_file_content, before its outer except clause: what the
\* body returns, or the exception that leaves it
ExtractBody(file_path, fs) ==
    ExtractByKind(file_path, fs, Lower(SplitExt(file_path)[2]),
                  Prefix(fs.parts, MaxPdfPages), Prefix(fs.parts, MaxParagraphs))

\* the outer except clause of _extract_file_content: any exception of the body
\* is printed and becomes the filename-only description
ExtractNoCatch(body, file_path) == body

ExtractExcept(body, file_path) ==
    IF body.exc = "none" THEN body
    ELSE [exc |-> "none", val |-> S_Filename \o Basename(file_path)]

\* AIAssistant._extract_file_content
ExtractFileContent(file_path, fs) ==
    ExtractExcept(ExtractBody(file_path, fs), file_path)

\* the three names of _get_fallback_suggestions over a base name
FallbackSwapped(base_name) ==
    <<base_name \o S_renamed, base_name \o S_updated, base_name \o S_organized>>

FallbackNames(base_name) ==
    <<base_name \o S_renamed, base_name \o S_organized, base_name \o S_updated>>

\* AIAssistant._get_fallback_suggestions
GetFallbackSuggestions(file_path) == FallbackNames(BaseName(file_path))

\* the size limit of get_document_name_suggestions
TruncateOffByOne(file_content) ==
    IF Len(file_content) >= Budget THEN SubSeq(file_content, 1, Budget) \o S_Marker
    ELSE file_content

Truncate(file_content) ==
    IF Len(file_content) > Budget THEN SubSeq(file_content, 1, Budget) \o S_Marker
    ELSE file_content

\* if not file_content: file_content = f"File: {os.path.basename(file_path)}"
OrFileName(got, file_path) ==
    IF got.exc = "none" /\ ~Truthy(got.val)
    THEN [exc |-> "none", val |-> S_File \o Basename(file_path)]
    ELSE got

\* the content get_document_name_suggestions analyses: the caller's, or the
\* extracted one, or the file's name when that is empty
FilledContent(file_path, file_content, fs) ==
    OrFileName(IF file_content = None THEN ExtractFileContent(file_path, fs)
               ELSE [exc |-> "none", val |-> file_content],
               file_path)

Limit(filled) ==
    IF filled.exc # "none" THEN [exc |-> filled.exc, val |-> None]
    ELSE [exc |-> "none", val |-> Truncate(filled.val)]

\* the content get_document_name_suggestions puts into its prompt
PrepareContent(file_path, file_content, fs) ==
    Limit(FilledContent(file_path, file_content, fs))

\* the non-empty ones of the stripped lines
Kept(parts) ==
    SelectSeq([i \in 1..Len(parts) |-> Strip(parts[i])], LAMBDA s : s # <<>>)

\* [s.strip() for s in suggestions_text.split('\n') if s.strip()]
NonEmptyLines(text) == Kept(SplitLines(Strip(text)))

\* while len(suggestions) < 3: suggestions.append(f"{base_name}_v{len(suggestions)}")
RECURSIVE Pad(_, _)
Pad(names, base_name) ==
    IF Len(names) < NumSuggestions
    THEN Pad(Append(names, base_name \o S_v \o Str(Len(names))), base_name)
    ELSE names

\* the choice among the parsed names, the padded ones and the fallback ones
ChooseNoPad(names, file_path) ==
    IF names # <<>> THEN Prefix(names, NumSuggestions)
    ELSE GetFallbackSuggestions(file_path)

ChooseLast(names, file_path) ==
    IF Len(names) >= NumSuggestions
    THEN SubSeq(names, Len(names) - NumSuggestions + 1, Len(names))
    ELSE IF names # <<>>
    THEN SubSeq(Pad(names, BaseName(file_path)), 1, NumSuggestions)
    ELSE GetFallbackSuggestions(file_path)

ChooseNames(names, file_path) ==
    IF Len(names) >= NumSuggestions THEN SubSeq(names, 1, NumSuggestions)
    ELSE IF names # <<>>
    THEN SubSeq(Pad(names, BaseName(file_path)), 1, NumSuggestions)
    ELSE GetFallbackSuggestions(file_path)

\* the parsing of the reply in get_document_name_suggestions
ParseReply(content, file_path) == ChooseNames(NonEmptyLines(content), file_path)

\* the request and the parsing of its reply.  remote is what
\* client.chat.completions.create does: it raises, or replies with a message
\* whose content is a string or None (and None has no strip()).
AskRemote(prep, remote, file_path) ==
    IF prep.exc # "none" THEN [exc |-> prep.exc, val |-> <<>>, sent |-> None]
    ELSE IF remote.kind = "raise"
    THEN [exc |-> "Error", val |-> <<>>, sent |-> prep.val]
    ELSE IF remote.content = None
    THEN [exc |-> "AttributeError", val |-> <<>>, sent |-> prep.val]
    ELSE [exc |-> "none", val |-> ParseReply(remote.content, file_path),
          sent |-> prep.val]

\* the try block of get_document_name_suggestions
SuggestBody(file_path, file_content, fs, remote) ==
    AskRemote(PrepareContent(file_path, file_content, fs), remote, file_path)

\* the except clause of get_document_name_suggestions
SuggestExcept(body, file_path) ==
    IF body.exc = "none" THEN body
    ELSE [exc |-> "none", val |-> GetFallbackSuggestions(file_path),
          sent |-> body.sent]

\* AIAssistant.get_document_name_suggestions
GetDocumentNameSuggestions(ready, file_path, file_content, fs, remote) ==
    IF ~ready THEN [exc |-> "none", val |-> <<>>, sent |-> None]
    ELSE SuggestExcept(SuggestBody(file_path, file_content, fs, remote), file_path)

\* ------------------------------------------------------------ service actions

NoResult == [exc |-> "none", val |-> None]

\* no dialog is open
DialogIdle ==
    /\ has_ops = FALSE
    /\ current_file = None
    /\ dlg_content = None
    /\ question_var = <<>>
    /\ chat = << <<>> >>
    /\ reqs = <<>>
    /\ afterq = <<>>

\* AIAssistant.__init__ and _load_config over the config file `file`, where
\* constructing the client does `outcome`
Constructed(file, outcome) ==
    LET key == LoadedKey(file)
        init == InitializeClient(key, None, FALSE, outcome)
    IN  /\ config_file = file
        /\ api_key = key
        /\ client = IF Truthy(key) THEN init.client ELSE None
        /\ is_configured = IF Truthy(key) THEN init.is_configured ELSE FALSE
        /\ ret = NoResult

\* AIAssistant.setup_api_key, the user having entered `entered` (None: cancelled)
SetupApiKey(entered, outcome, fs_ok) ==
    LET r == SetupResult(entered, outcome, fs_ok)
    IN  /\ api_key' = r.api_key
        /\ config_file' = r.config_file
        /\ client' = r.client
        /\ is_configured' = r.is_configured
        /\ ret' = [exc |-> "none", val |-> r.ret]
        /\ op' = [name |-> "setup", entered |-> entered, outcome |-> outcome]
        /\ UNCHANGED dvars

\* AIAssistant.get_document_name_suggestions(file_path, file_content)
Suggest(file_path, file_content, fs, remote) ==
    /\ ret' = GetDocumentNameSuggestions(is_ready, file_path, file_content, fs, remote)
    /\ op' = [name |-> "suggest", file_path |-> file_path,
              file_content |-> file_content, fs |-> fs, remote |-> remote]
    /\ UNCHANGED <<api_key, client, is_configured, config_file, dvars>>

\* AIAssistant._extract_file_content(file_path)
Extract(file_path, fs) ==
    /\ ret' = ExtractFileContent(file_path, fs)
    /\ op' = [name |-> "extract", file_path |-> file_path, fs |-> fs]
    /\ UNCHANGED <<api_key, client, is_configured, config_file, dvars>>

\* a call whose arguments were drawn beforehand
RunSuggest ==
    /\ op.name = "call_suggest"
    /\ Suggest(op.file_path, op.file_content, op.fs, op.remote)

RunExtract ==
    /\ op.name = "call_extract"
    /\ Extract(op.file_path, op.fs)

\* ------------------------------------------------------------ inputs

MaxReplyLen == 8    \* characters of a reply
MaxPathLen == 4     \* characters of an enumerated path
Slack == 8          \* content lengths within this of 0 and of the budget

RECURSIVE Strings(_, _)
\* the strings over `alphabet` of length at most n
Strings(alphabet, n) ==
    IF n = 0 THEN {<<>>}
    ELSE LET shorter == Strings(alphabet, n - 1)
         IN  shorter \cup {Append(s, c) : s \in shorter, c \in alphabet}

Outcomes == {"ok", "ImportError", "Error"}

\* what the user can enter: nothing (cancel), or a string
Entered ==
    {None, <<>>, S_sk, S_sk \o <<"a">>, <<"s", "k">>, <<"x", "s", "k", "-">>}

\* no file, an unparsable one, one without a key, one with a key
ConfigFiles == {NoFile, Corrupt, None, S_sk \o <<"z">>, <<"z">>}

P_report == <<"r", "e", "p", "o", "r", "t", ".", "t", "x", "t">>
P_dir == <<"d", ".", "d", "/", "n", ".", "t", "a", "r", ".", "g", "z">>
P_hidden == <<"d", "/", ".", "r", "c">>
P_upper == <<"A", ".", "T", "X", "T">>
P_pdf == <<"p", ".", "P", "d", "f">>
P_docx == <<"w", ".", "d", "o", "c", "x">>
P_doc == <<"d", "/", "w", ".", "d", "o", "c">>
P_bin == <<"b", ".", "b", "i", "n">>
P_md == <<"m", ".", "m", "d">>

NamedPaths == {P_report, P_dir, P_hidden, P_upper, P_pdf, P_docx, P_doc, P_bin, P_md}

EnumPaths == Strings({"a", ".", "/"}, MaxPathLen)

T_sales == <<"Q", "4", ".", ".", ".">>

File(readable, reader, text, parts) ==
    [readable |-> readable, reader |-> reader, text |-> text, parts |-> parts]

PlainFile == File(TRUE, "ok", T_sales, <<T_sales>>)
EmptyFile == File(TRUE, "ok", <<>>, <<>>)

\* the files a path can name
Files ==
    {File(rd, rdr, text, parts) :
        rd \in BOOLEAN, rdr \in {"ok", "absent", "error"},
        text \in {<<>>, T_sales},
        parts \in {<<>>, << <<>> >>, <<T_sales>>, <<None>>,
                   << <<>>, <<>>, <<>>, T_sales >>,
                   [i \in 1..(MaxParagraphs + 1) |-> IF i <= MaxParagraphs THEN <<>>
                                                      ELSE T_sales]}}

Raise == [kind |-> "raise", content |-> None]
Reply(content) == [kind |-> "reply", content |-> content]

R_three == <<"a", "\n", "b", " ", "\n", "c">>
R_four == <<" ", "a", "\n", "\n", "b", "\n", "c", "\n", "d">>
R_two == <<"a", "\n", " ", "\n", "b">>
R_one == <<"a">>
R_blank == <<" ", "\n", " ">>

\* ------------------------------------------------------------ the service's life

Init ==
    /\ \E file \in ConfigFiles, outcome \in Outcomes : Constructed(file, outcome)
    /\ op = [name |-> "init"]
    /\ DialogIdle

Next ==
    \/ \E entered \in Entered, outcome \in Outcomes, fs_ok \in BOOLEAN :
            SetupApiKey(entered, outcome, fs_ok)
    \/ \E file_path \in {P_report, P_dir, P_hidden},
          file_content \in {None, T_sales},
          fs \in {PlainFile, EmptyFile},
          remote \in {Raise, Reply(None), Reply(R_four), Reply(R_two), Reply(R_blank)} :
            Suggest(file_path, file_content, fs, remote)

Spec == Init /\ [][Next]_vars

\* ------------------------------------------------------------ single calls

\* a service constructed over a config file that holds a key
Keyed(outcomes) ==
    /\ \E outcome \in outcomes : Constructed(S_sk \o <<"z">>, outcome)
    /\ DialogIdle


Call(file_path, file_content, fs, remote) ==
    [name |-> "call_suggest", file_path |-> file_path,
     file_content |-> file_content, fs |-> fs, remote |-> remote]

\* suggestion requests over many paths, the remote call failing or not
InitNames ==
    /\ Keyed(Outcomes)
    /\ \E file_path \in NamedPaths \cup EnumPaths, file_content \in {None, T_sales},
          fs \in {PlainFile, File(FALSE, "absent", <<>>, <<>>)},
          remote \in {Raise, Reply(None), Reply(R_two)} :
            op = Call(file_path, file_content, fs, remote)

SpecNames == InitNames /\ [][RunSuggest]_vars

\* suggestion requests over every short reply
InitParse ==
    /\ Keyed({"ok"})
    /\ \E file_path \in {P_report, P_hidden},
          content \in Strings({"a", " ", "\n"}, MaxReplyLen) :
            op = Call(file_path, T_sales, PlainFile, Reply(content))

SpecParse == InitParse /\ [][RunSuggest]_vars

\* n characters: `fill`, then `tail` as far as it fits
Text(n, fill, tail) ==
    [i \in 1..n |-> IF i > n - Len(tail) /\ n >= Len(tail) THEN tail[i - (n - Len(tail))]
                    ELSE fill]

Lengths == (0..Slack) \cup {n \in (Budget - Slack)..(Budget + Slack) : n >= 0}

Contents ==
    {Text(n, fill, tail) : n \in Lengths, fill \in {"a", "."},
                           tail \in {<<>>, S_Marker, <<".", "a">>}}

\* suggestion requests over contents around the size limit, the caller's or
\* a text file's
InitTrunc ==
    /\ Keyed({"ok"})
    /\ \E content \in Contents, given \in BOOLEAN, remote \in {Raise, Reply(R_two)} :
            op = Call(P_report,
                      IF given THEN content ELSE None,
                      File(TRUE, "ok", content, <<>>),
                      remote)

SpecTrunc == InitTrunc /\ [][RunSuggest]_vars

\* extractions over the kinds and conditions of files
InitExtract ==
    /\ Keyed({"ok"})
    /\ \E file_path \in NamedPaths, fs \in Files :
            op = [name |-> "call_extract", file_path |-> file_path, fs |-> fs]

SpecExtract == InitExtract /\ [][RunExtract]_vars

\* ------------------------------------------------------------ the dialog

MaxRequests == 3    \* requests dispatched in one run of the dialog

S_Analyze == <<"A", "n", "a", "l", "y", "z", "e", " ", "f", "i", "l", "e", ":", " ">>
T_Thinking == <<"Thinking...">>
T_Analyzing == <<"Analyzing file...">>
T_Answer == <<"answer">>
T_Apology == <<"apology">>

\* a piece of text inserted into the transcript: who it is from, the request it
\* belongs to, and its text
Entry(sender, r, text) == [sender |-> sender, req |-> r, text |-> text]

\* chat_text.index(tk.END): the line after the last one, the widget's text
\* ending in a newline of its own
IndexEnd(lines) == Len(lines) + 1

\* chat_text.insert(tk.END, entry + "\n\n"): the text goes before the widget's
\* final newline, onto the last line, and two lines follow it
InsertEnd(lines, entry) ==
    [lines EXCEPT ![Len(lines)] = Append(@, entry)] \o << <<>>, <<>> >>

\* chat_text.delete(f"{start}.0", tk.END): a start past the last line is the
\* end, and nothing goes; otherwise the lines from start on go, with the
\* newline before them, the final newline staying
DeleteToEnd(lines, start) ==
    IF start > Len(lines) THEN lines
    ELSE IF start = 1 THEN << <<>> >>
    ELSE SubSeq(lines, 1, start - 1)

\* AIDialog._add_message("user", message)
AddUserMessage(lines, r, message) == InsertEnd(lines, Entry("user", r, message))

\* what ask_question / analyze_file of an assistant that offers them return:
\* the completion's text, or a fixed apology on any failure
AssistantReply(ready, remote) ==
    IF ready /\ remote = "ok" THEN T_Answer ELSE T_Apology

\* the common part of _ask_question and _analyze_file: the user's entry, the
\* index of the end, the placeholder, the worker thread
Dispatch(kind, message, placeholder) ==
    LET r == Len(reqs) + 1
        shown == AddUserMessage(chat, r, message)
    IN  /\ chat' = InsertEnd(shown, Entry("thinking", r, placeholder))
        /\ reqs' = Append(reqs, [kind |-> kind, thinking_start |-> IndexEnd(shown),
                                 pc |-> "running", response |-> None])

\* the user edits the question entry
TypeQuestion(text) ==
    /\ text # question_var
    /\ question_var' = text
    /\ UNCHANGED <<svars, has_ops, current_file, dlg_content, chat, reqs, afterq>>

\* AIDialog._ask_question
AskQuestion ==
    /\ Strip(question_var) # <<>>
    /\ Len(reqs) < MaxRequests
    /\ question_var' = <<>>
    /\ Dispatch("ask", Strip(question_var), T_Thinking)
    /\ UNCHANGED <<svars, has_ops, current_file, dlg_content, afterq>>

\* AIDialog._analyze_file
AnalyzeFile ==
    /\ Truthy(current_file)
    /\ Truthy(dlg_content)
    /\ Len(reqs) < MaxRequests
    /\ Dispatch("analyze", S_Analyze \o Basename(current_file), T_Analyzing)
    /\ UNCHANGED <<svars, has_ops, current_file, dlg_content, question_var, afterq>>

\* the worker thread of request r (get_response, analyze): the assistant's
\* call, then dialog.after(0, ...); the AIAssistant of this module has neither
\* ask_question nor analyze_file, so the call raises AttributeError and the
\* thread ends without queueing anything
WorkerRun(r, remote) ==
    /\ r \in 1..Len(reqs)
    /\ reqs[r].pc = "running"
    /\ IF has_ops
       THEN /\ reqs' = [reqs EXCEPT ![r].pc = "queued",
                                    ![r].response = AssistantReply(is_ready, remote)]
            /\ afterq' = Append(afterq, r)
       ELSE /\ reqs' = [reqs EXCEPT ![r].pc = "died"]
            /\ afterq' = afterq
    /\ UNCHANGED <<svars, has_ops, current_file, dlg_content, question_var, chat>>

\* AIDialog._update_response, run by the event loop for the first queued callback
UpdateResponse ==
    /\ afterq # <<>>
    /\ LET r == Head(afterq)
       IN  /\ chat' = InsertEnd(DeleteToEnd(chat, reqs[r].thinking_start),
                                Entry("ai", r, reqs[r].response))
           /\ reqs' = [reqs EXCEPT ![r].pc = "updated"]
    /\ afterq' = Tail(afterq)
    /\ UNCHANGED <<svars, has_ops, current_file, dlg_content, question_var>>

Questions == {<<>>, <<" ">>, <<" ", "q", " ">>, <<"r">>}

\* an open dialog: its text widget is empty, the assistant is ready or not, a
\* file with content was handed over or not
InitDialog ==
    /\ \E outcome \in Outcomes : Constructed(S_sk \o <<"z">>, outcome)
    /\ op = [name |-> "init"]
    /\ has_ops \in BOOLEAN
    /\ \E f \in {<<None, None>>, <<P_report, T_sales>>, <<P_report, <<>> >>} :
            current_file = f[1] /\ dlg_content = f[2]
    /\ question_var = <<>>
    /\ chat = << <<>> >>
    /\ reqs = <<>>
    /\ afterq = <<>>

NextDialog ==
    \/ \E text \in Questions : TypeQuestion(text)
    \/ AskQuestion
    \/ AnalyzeFile
    \/ \E r \in 1..MaxRequests, remote \in {"ok", "fail"} : WorkerRun(r, remote)
    \/ UpdateResponse

SpecDialog == InitDialog /\ [][NextDialog]_vars

\* a started thread runs, and the event loop runs what is queued on it
FairSpecDialog ==
    /\ SpecDialog
    /\ \A r \in 1..MaxRequests :
            WF_vars(\E remote \in {"ok", "fail"} : WorkerRun(r, remote))
    /\ WF_vars(UpdateResponse)

\* ------------------------------------------------------------ what the claims speak of

\* b is p's last component without its extension, said without rfind: p is
\* dir \o b \o ext, dir empty or ending in "/", nothing after dir holding a "/",
\* and ext the part from the last dot on when a character other than a dot
\* comes before that dot, empty otherwise
IsBaseOf(b, p, i, j) ==
    LET ext == SubSeq(p, j + 1, Len(p))
        solid(m) == \E k \in (i + 1)..m : p[k] # "."
    IN  /\ i <= j
        /\ b = SubSeq(p, i + 1, j)
        /\ i = 0 \/ p[i] = "/"
        /\ \A k \in (i + 1)..Len(p) : p[k] # "/"
        /\ \/ /\ ext = <<>>
              /\ \A k \in (i + 1)..Len(p) : p[k] = "." => ~solid(k - 1)
           \/ /\ ext # <<>>
              /\ ext[1] = "."
              /\ \A k \in (j + 2)..Len(p) : p[k] # "."
              /\ solid(j)

BaseOf(p) ==
    LET cuts == {c \in (0..Len(p)) \X (0..Len(p)) :
                    IsBaseOf(SubSeq(p, c[1] + 1, c[2]), p, c[1], c[2])}
        c == CHOOSE c \in cuts : TRUE
    IN  SubSeq(p, c[1] + 1, c[2])

RECURSIVE TrimLeft(_)
TrimLeft(s) == IF s # <<>> /\ IsSpace(Head(s)) THEN TrimLeft(Tail(s)) ELSE s

RECURSIVE TrimRight(_)
TrimRight(s) ==
    IF s # <<>> /\ IsSpace(s[Len(s)]) THEN TrimRight(SubSeq(s, 1, Len(s) - 1)) ELSE s

Emit(acc, cur) ==
    IF TrimRight(TrimLeft(cur)) = <<>> THEN acc
    ELSE Append(acc, TrimRight(TrimLeft(cur)))

\* the non-empty lines of a text after stripping, read character by character
RECURSIVE Scan(_, _, _)
Scan(s, cur, acc) ==
    IF s = <<>> THEN Emit(acc, cur)
    ELSE IF Head(s) = "\n" THEN Scan(Tail(s), <<>>, Emit(acc, cur))
    ELSE Scan(Tail(s), Append(cur, Head(s)), acc)

LinesOf(text) == Scan(text, <<>>, <<>>)

EndsWith(s, t) == Len(s) >= Len(t) /\ SubSeq(s, Len(s) - Len(t) + 1, Len(s)) = t

ThreeNonEmpty(names) ==
    /\ Len(names) = 3
    /\ \A i \in 1..3 : names[i] # None /\ Len(names[i]) > 0

SetupOf(o) == o.name = "setup"
SuggestOf(o) == o.name = "suggest"

\* ------------------------------------------------------------ C2

\* C2 as stated: every suggestion request, whatever the credential state,
\* returns exactly 3 non-empty strings.
C2_ThreeInAnyState ==
    SuggestOf(op) => ret.exc = "none" /\ ThreeNonEmpty(ret.val)

\* C2, amended: a suggestion request never raises; it returns exactly 3 non-empty
\* strings when the service is ready, and the empty sequence when it is not.
C2_ThreeWhenReady ==
    SuggestOf(op) =>
        /\ ret.exc = "none"
        /\ is_ready => ThreeNonEmpty(ret.val)
        /\ ~is_ready => ret.val = <<>>

\* a ready service, configured by a setup call, padded a two-line reply to three
C2_Witness ==
    /\ SuggestOf(op)
    /\ is_ready
    /\ api_key = S_sk \o <<"a">>
    /\ op.remote = Reply(R_two)
    /\ Len(ret.val) = 3

\* ------------------------------------------------------------ C3

\* C3: a setup call whose entered credential does not start with "sk-" returns
\* failure and leaves the config file, the stored credential, the client and
\* the configured flag as they were.
C3_RejectedBeforePersisting ==
    [][(SetupOf(op') /\ ~StartsWith(op'.entered, S_sk)) =>
            /\ ret'.val = FALSE
            /\ config_file' = config_file
            /\ api_key' = api_key
            /\ client' = client
            /\ is_configured' = is_configured]_vars

\* a configured service turned down a credential without the prefix
C3_Witness ==
    /\ SetupOf(op)
    /\ op.entered = <<"x", "s", "k", "-">>
    /\ ret.val = FALSE
    /\ is_ready
    /\ api_key # op.entered
    /\ config_file # op.entered

\* ------------------------------------------------------------ C4

\* C4: when a ready service's remote call raises, or its reply cannot be
\* parsed, the request does not raise and returns base_renamed, base_organized,
\* base_updated in that order, base being the basename without its extension.
C4_FallbackOnFailure ==
    (SuggestOf(op) /\ is_ready /\ (op.remote.kind = "raise" \/ op.remote.content = None))
        => /\ ret.exc = "none"
           /\ ret.val = << BaseOf(op.file_path) \o S_renamed,
                           BaseOf(op.file_path) \o S_organized,
                           BaseOf(op.file_path) \o S_updated >>

\* the remote call raised for d.d/n.tar.gz, whose base is n.tar
C4_Witness ==
    /\ SuggestOf(op)
    /\ is_ready
    /\ op.remote.kind = "raise"
    /\ op.file_path = P_dir
    /\ ret.val[1] = <<"n", ".", "t", "a", "r">> \o S_renamed

\* ------------------------------------------------------------ C5

\* C5: once is_ready() is true it is true after every later setup call and
\* suggestion request.
C5_ReadyNeverReverts == [][is_ready => is_ready']_vars

\* a ready service went through a setup call whose client construction failed:
\* it holds the new key, and the client of the old one
C5_Witness ==
    /\ SetupOf(op)
    /\ StartsWith(op.entered, S_sk)
    /\ op.outcome # "ok"
    /\ is_ready
    /\ api_key = op.entered
    /\ client # OpenAI(api_key)

\* ------------------------------------------------------------ C6

\* C6 as stated: after a setup call with a prefixed credential whose client
\* construction fails, setup has reported failure and the service is
\* unconfigured, whatever it was before.
C6_UnconfiguredAfterFailure ==
    (SetupOf(op) /\ StartsWith(op.entered, S_sk) /\ op.outcome # "ok")
        => ret.val = FALSE /\ ~is_configured /\ ~is_ready

\* C6, amended: such a call reports failure and leaves the configured flag and
\* the client as they were, so the service is unconfigured after it exactly
\* when it was unconfigured before it.
C6_FailureKeepsConfigured ==
    [][(SetupOf(op') /\ StartsWith(op'.entered, S_sk) /\ op'.outcome # "ok") =>
            /\ ret'.val = FALSE
            /\ is_configured' = is_configured
            /\ client' = client]_vars

\* an unconfigured service stayed unconfigured through a failed construction
C6_Witness ==
    /\ SetupOf(op)
    /\ StartsWith(op.entered, S_sk)
    /\ op.outcome = "ImportError"
    /\ ret.val = FALSE
    /\ api_key = op.entered
    /\ ~is_configured
    /\ ~is_ready

\* ------------------------------------------------------------ C7

ExtOf(o) == Lower(SplitExt(o.file_path)[2])

\* the file was read without error and held no text
ReadNothing(o) ==
    /\ o.fs.readable
    /\ \/ ExtOf(o) \in TextExts /\ o.fs.text = <<>>
       \/ /\ ExtOf(o) = PdfExt
          /\ o.fs.reader = "ok"
          /\ \A i \in 1..Len(o.fs.parts) : i <= MaxPdfPages => o.fs.parts[i] = <<>>
       \/ /\ ExtOf(o) \in WordExts
          /\ o.fs.reader = "ok"
          /\ o.fs.parts = <<>>

\* C7 as stated: content extraction never raises and returns a string of
\* length > 0 for every kind and condition of file.
C7_AlwaysNonEmpty ==
    op.name = "extract" => ret.exc = "none" /\ ret.val # None /\ Len(ret.val) > 0

\* C7, amended: content extraction never raises and returns a string; the
\* string is empty exactly when the file was read without error and held no
\* text (an empty text file, a PDF whose first pages have no text, a word
\* document without paragraphs).
C7_NonEmptyUnlessReadNothing ==
    op.name = "extract" =>
        /\ ret.exc = "none"
        /\ ret.val # None
        /\ ret.val = <<>> <=> ReadNothing(op)

\* an unreadable text file gave its filename-only description
C7_Witness ==
    /\ op.name = "extract"
    /\ op.file_path = P_upper
    /\ ~op.fs.readable
    /\ ret.val = S_Filename \o P_upper

\* ------------------------------------------------------------ C8

\* the content a request analyses, before the size limit
Analysed(o) ==
    LET c == IF o.file_content # None THEN o.file_content ELSE o.fs.text
    IN  IF c = <<>> THEN S_File \o Basename(o.file_path) ELSE c

CutAndKept(o) ==
    /\ Len(Analysed(o)) > Budget =>
            ret.sent = SubSeq(Analysed(o), 1, Budget) \o S_Marker
    /\ Len(Analysed(o)) <= Budget => ret.sent = Analysed(o)
    /\ Len(ret.sent) <= Budget + Len(S_Marker)

\* C8 as stated: content longer than 3000 characters is sent as its first 3000
\* characters and "...", shorter content is sent unchanged, the sent content
\* ends in the marker exactly when it was truncated, and it is never longer
\* than the budget plus the marker.
C8_MarkerIffTruncated ==
    (SuggestOf(op) /\ is_ready) =>
        /\ CutAndKept(op)
        /\ EndsWith(ret.sent, S_Marker) <=> Len(Analysed(op)) > Budget

\* C8, amended: as stated, but the sent content ends in the marker exactly when
\* it was truncated or the content itself already ended in "...".
C8_MarkerIffTruncatedOrOwn ==
    (SuggestOf(op) /\ is_ready) =>
        /\ CutAndKept(op)
        /\ EndsWith(ret.sent, S_Marker) <=>
                (Len(Analysed(op)) > Budget \/ EndsWith(Analysed(op), S_Marker))

\* a content of 3001 characters went out as 3003
C8_Witness ==
    /\ SuggestOf(op)
    /\ is_ready
    /\ Len(Analysed(op)) = Budget + 1
    /\ Len(ret.sent) = Budget + Len(S_Marker)
    /\ EndsWith(ret.sent, <<"a">> \o S_Marker)

\* ------------------------------------------------------------ C10

\* C10: for a ready service and a reply with k non-empty lines after stripping,
\* the result has length 3: the first three lines when k >= 3; the k lines and
\* then base_v{i} for i = k .. 2 when 1 <= k < 3; the fallback names when k = 0.
C10_ParsedPaddedOrFallback ==
    (SuggestOf(op) /\ is_ready /\ op.remote.kind = "reply" /\ op.remote.content # None) =>
        LET lines == LinesOf(op.remote.content)
            k == Len(lines)
            base == BaseOf(op.file_path)
        IN  /\ ret.exc = "none"
            /\ Len(ret.val) = 3
            /\ k >= 1 => \A i \in 1..3 :
                    ret.val[i] = IF i <= k THEN lines[i]
                                 ELSE base \o <<"_", "v", Digits[i]>>
            /\ k = 0 => ret.val = <<base \o S_renamed, base \o S_organized,
                                    base \o S_updated>>

\* a reply of one line was padded with report_v1 and report_v2
C10_Witness ==
    /\ SuggestOf(op)
    /\ is_ready
    /\ op.remote.content = <<"\n", " ", "a", "a", " ", "\n">>
    /\ ret.val = << <<"a", "a">>,
                    <<"r", "e", "p", "o", "r", "t", "_", "v", "1">>,
                    <<"r", "e", "p", "o", "r", "t", "_", "v", "2">> >>

\* ------------------------------------------------------------ C1

\* how many entries of the transcript are from `sender` for request r
RECURSIVE CountIn(_, _, _)
CountIn(line, sender, r) ==
    IF line = <<>> THEN 0
    ELSE (IF Head(line).sender = sender /\ Head(line).req = r THEN 1 ELSE 0)
         + CountIn(Tail(line), sender, r)

RECURSIVE CountLines(_, _, _)
CountLines(lines, sender, r) ==
    IF lines = <<>> THEN 0
    ELSE CountIn(Head(lines), sender, r) + CountLines(Tail(lines), sender, r)

Count(sender, r) == CountLines(chat, sender, r)

AllCompleted ==
    /\ reqs # <<>>
    /\ \A r \in 1..Len(reqs) : reqs[r].pc = "updated"

\* C1: once every dispatched request has completed, in whatever order, the
\* transcript holds every submitted user entry exactly once, exactly one answer
\* per request, and no placeholder: each completion replaced its own.
C1_NothingLostOrDuplicated ==
    AllCompleted =>
        \A r \in 1..Len(reqs) :
            /\ Count("user", r) = 1
            /\ Count("ai", r) = 1
            /\ Count("thinking", r) = 0

\* ------------------------------------------------------------ C9

PlaceholderShown(r) == r \in 1..Len(reqs) /\ Count("thinking", r) > 0
Answered(r) == r \in 1..Len(reqs) /\ Count("thinking", r) = 0 /\ Count("ai", r) > 0

\* C9: every placeholder added to the transcript is eventually replaced by an
\* answer entry.
C9_PlaceholderReplaced ==
    \A r \in 1..MaxRequests : [](PlaceholderShown(r) => <>Answered(r))

====
